---- MODULE Spec2Model ----
(***************************************************************************)
(* A model of pythonparser/source.py: the Buffer with its lazily built     *)
(* line index, the Range algebra, and the conflict-checked Rewriter.       *)
(* Strings are sequences of one-character strings; offsets are 0-based as  *)
(* in the source, sequences are 1-based as in TLA+.                        *)
(***************************************************************************)
EXTENDS Integers, Sequences, FiniteSets, TLC

VARIABLES buffer, heap, ret, pc, index, lb, obs, ra, rb, joined, ranges, rwres

vars == <<buffer, heap, ret, pc, index, lb, obs, ra, rb, joined, ranges, rwres>>

(* ------------------------------ bounds --------------------------------- *)
MaxLen == 3
MaxEdits == 3

None == "None"
NL == "\n"
Alphabet == {"a", NL}
FirstLines == {1, 3}
Threads == {"t1", "t2"}
Texts == {<<"X">>, <<"Y">>}
RwSource == <<"a", "b">>

RECURSIVE StringsOfLen(_)
StringsOfLen(n) ==
  IF n = 0 THEN {<<>>}
  ELSE {Append(s, c) : s \in StringsOfLen(n - 1), c \in Alphabet}

Sources == UNION {StringsOfLen(n) : n \in 0..MaxLen}

(* --------------------------- Python built-ins -------------------------- *)
\* An optional integer (None or an int) is <<>> or <<i>>.
NoInt == <<>>
Some(i) == <<i>>

\* a slice bound: negative bounds count from the end, out-of-range bounds
\* are clamped.
SliceBound(n, i) ==
  IF i < 0 THEN (IF i + n < 0 THEN 0 ELSE i + n)
  ELSE IF i > n THEN n ELSE i

\* s[i:j], empty when i >= j.
PySlice(s, i, j) ==
  LET lo == SliceBound(Len(s), i)
      hi == SliceBound(Len(s), j)
  IN IF lo >= hi THEN <<>> ELSE SubSeq(s, lo + 1, hi)

\* s[i:]
PySliceFrom(s, i) == PySlice(s, i, Len(s))

\* str.find(ch, start): lowest offset >= start holding ch, or -1; a start
\* of None searches from offset 0.
Find(s, ch, start) ==
  LET from == IF start = NoInt THEN 0 ELSE SliceBound(Len(s), start[1])
      hits == {i \in from..(Len(s) - 1) : s[i + 1] = ch}
  IN IF hits = {} THEN -1 ELSE CHOOSE i \in hits : \A j \in hits : i <= j

\* bisect.bisect_right(a, x): binary search, insertion point right of ties.
RECURSIVE BisectLoop(_, _, _, _)
BisectLoop(a, x, lo, hi) ==
  IF lo < hi
  THEN LET mid == (lo + hi) \div 2
       IN IF x < a[mid + 1] THEN BisectLoop(a, x, lo, mid)
          ELSE BisectLoop(a, x, mid + 1, hi)
  ELSE lo

RECURSIVE BisectLeftLoop(_, _, _, _)
BisectLeftLoop(a, x, lo, hi) ==
  IF lo < hi
  THEN LET mid == (lo + hi) \div 2
       IN IF a[mid + 1] < x THEN BisectLeftLoop(a, x, mid + 1, hi)
          ELSE BisectLeftLoop(a, x, lo, mid)
  ELSE lo

bisect_left(a, x) == BisectLeftLoop(a, x, 0, Len(a))

bisect_right(a, x) == BisectLoop(a, x, 0, Len(a))

\* a[i] for a list: a negative index counts from the end.
PyIndex(a, i) == a[IF i < 0 THEN i + Len(a) + 1 ELSE i + 1]

Min(a, b) == IF b < a THEN b ELSE a
Max(a, b) == IF b > a THEN b ELSE a

(* -------------------------------- Buffer ------------------------------- *)
\* Buffer.__init__; _line_begins is None or a reference into heap.
Buffer(source, name, first_line) ==
  [source |-> source, name |-> name, first_line |-> first_line,
   _line_begins |-> None]

\* truth value of self._line_begins: None and the empty list are false.
Truthy(ref, h) == ref # None /\ Len(h[ref]) > 0

RECURSIVE ScanLoopSkip(_, _, _)
ScanLoopSkip(source, acc, idx) ==
  LET nxt == Find(source, NL, IF idx = NoInt THEN NoInt ELSE Some(idx[1] + 1)) + 1
  IN IF nxt = 0 THEN acc ELSE ScanLoopSkip(source, Append(acc, nxt), Some(nxt))

\* the while-loop of _extract_line_begins run by a single caller.
RECURSIVE ScanLoop(_, _, _)
ScanLoop(source, acc, idx) ==
  LET nxt == Find(source, NL, idx) + 1
  IN IF nxt = 0 THEN acc ELSE ScanLoop(source, Append(acc, nxt), Some(nxt))

\* _extract_line_begins run to completion by one caller: the new buffer,
\* the new heap and the returned list reference.
_extract_line_begins(self, h, me) ==
  IF Truthy(self._line_begins, h)
  THEN [buffer |-> self, heap |-> h, ref |-> self._line_begins]
  ELSE [buffer |-> [self EXCEPT !._line_begins = me],
        heap |-> [h EXCEPT ![me] = ScanLoop(self.source, <<0>>, NoInt)],
        ref |-> me]

\* a source_line whose first branch drops the last character of the line.
source_line_short(self, h, me, lineno) ==
  LET e == _extract_line_begins(self, h, me)
      line_begins == e.heap[e.ref]
      k == lineno - self.first_line
  IN IF k >= 0 /\ k + 1 < Len(line_begins)
     THEN [buffer |-> e.buffer, heap |-> e.heap, kind |-> "ok",
           value |-> PySlice(self.source, PyIndex(line_begins, k),
                             PyIndex(line_begins, k + 1) - 1)]
     ELSE IF k >= 0 /\ k < Len(line_begins)
     THEN [buffer |-> e.buffer, heap |-> e.heap, kind |-> "ok",
           value |-> PySliceFrom(self.source, PyIndex(line_begins, -1))]
     ELSE [buffer |-> e.buffer, heap |-> e.heap, kind |-> "IndexError",
           value |-> <<>>]

\* Buffer.source_line
source_line(self, h, me, lineno) ==
  LET e == _extract_line_begins(self, h, me)
      line_begins == e.heap[e.ref]
      k == lineno - self.first_line
  IN IF k >= 0 /\ k + 1 < Len(line_begins)
     THEN [buffer |-> e.buffer, heap |-> e.heap, kind |-> "ok",
           value |-> PySlice(self.source, PyIndex(line_begins, k),
                             PyIndex(line_begins, k + 1))]
     ELSE IF k >= 0 /\ k < Len(line_begins)
     THEN [buffer |-> e.buffer, heap |-> e.heap, kind |-> "ok",
           value |-> PySliceFrom(self.source, PyIndex(line_begins, -1))]
     ELSE [buffer |-> e.buffer, heap |-> e.heap, kind |-> "IndexError",
           value |-> <<>>]

\* Buffer.decompose_position
decompose_position(self, h, me, offset) ==
  LET e == _extract_line_begins(self, h, me)
      line_begins == e.heap[e.ref]
      lineno == bisect_right(line_begins, offset) - 1
  IN IF offset >= 0 /\ offset <= Len(self.source)
     THEN [buffer |-> e.buffer, heap |-> e.heap, kind |-> "ok",
           value |-> <<lineno + self.first_line,
                       offset - PyIndex(line_begins, lineno)>>]
     ELSE [buffer |-> e.buffer, heap |-> e.heap, kind |-> "IndexError",
           value |-> <<>>]

(* -------------------------------- Range -------------------------------- *)
\* Range.__init__; source_buffer is the identity of the Buffer referred to.
Range(source_buffer, begin_pos, end_pos) ==
  [source_buffer |-> source_buffer, begin_pos |-> begin_pos,
   end_pos |-> end_pos]

begin(self) == Range(self.source_buffer, self.begin_pos, self.begin_pos)

end(self) == Range(self.source_buffer, self.end_pos, self.end_pos)

\* a join that keeps its own begin_pos
join_own_begin(self, other) ==
  IF self.source_buffer # other.source_buffer
  THEN [kind |-> "ValueError", value |-> <<>>]
  ELSE [kind |-> "ok",
        value |-> <<Range(self.source_buffer, self.begin_pos,
                          Max(self.end_pos, other.end_pos))>>]

\* Range.join: the returned range, or the ValueError raised
join(self, other) ==
  IF self.source_buffer # other.source_buffer
  THEN [kind |-> "ValueError", value |-> <<>>]
  ELSE [kind |-> "ok",
        value |-> <<Range(self.source_buffer,
                          Min(self.begin_pos, other.begin_pos),
                          Max(self.end_pos, other.end_pos))>>]

\* Range.__eq__ on two Range objects
__eq__(self, other) ==
  /\ self.source_buffer = other.source_buffer
  /\ self.begin_pos = other.begin_pos
  /\ self.end_pos = other.end_pos

(* ------------------------------- Rewriter ------------------------------- *)
\* an edit is the tuple (range, replacement)
replace(rs, range, replacement) == Append(rs, <<range, replacement>>)

remove(rs, range) == replace(rs, range, <<>>)

insert_before(rs, range, text) == replace(rs, begin(range), text)

insert_after(rs, range, text) == replace(rs, end(range), text)

\* list.sort(key=begin_pos) is stable: an edit goes after the edits
\* already placed whose key is less than or equal to its own.
RECURSIVE SortInto(_, _, _)
SortInto(done, rs, i) ==
  IF i > Len(rs) THEN done
  ELSE LET x == rs[i]
           n == Cardinality({k \in 1..Len(done) :
                              done[k][1].begin_pos <= x[1].begin_pos})
       IN SortInto(SubSeq(done, 1, n) \o <<x>> \o SubSeq(done, n + 1, Len(done)),
                   rs, i + 1)

\* a sort that puts an edit before the placed edits of equal key
RECURSIVE SortIntoFront(_, _, _)
SortIntoFront(done, rs, i) ==
  IF i > Len(rs) THEN done
  ELSE LET x == rs[i]
           n == Cardinality({k \in 1..Len(done) :
                              done[k][1].begin_pos < x[1].begin_pos})
       IN SortIntoFront(SubSeq(done, 1, n) \o <<x>> \o SubSeq(done, n + 1, Len(done)),
                        rs, i + 1)

_sort_unstable(rs) == SortIntoFront(<<>>, rs, 1)

\* Rewriter._sort
_sort(rs) == SortInto(<<>>, rs, 1)

\* a check that looks at the first pair only
_check_first_pair(rs) ==
  IF Len(rs) >= 2 /\ rs[2][1].begin_pos < rs[1][1].end_pos
  THEN <<rs[1][1], rs[2][1]>> ELSE <<>>

\* Rewriter._check: the (fst, snd) handed to RewriterConflict at the first
\* consecutive pair with snd.begin_pos < fst.end_pos, or <<>> when the
\* loop ends without raising.
_check(rs) ==
  LET bad == {i \in 1..(Len(rs) - 1) : rs[i + 1][1].begin_pos < rs[i][1].end_pos}
  IN IF bad = {} THEN <<>>
     ELSE LET i == CHOOSE i \in bad : \A j \in bad : i <= j
          IN <<rs[i][1], rs[i + 1][1]>>

\* RewriterConflict(first, second): __init__ sets the two attributes and
\* then evaluates the name `exception`, which is bound nowhere, so the
\* error that leaves the constructor is a NameError.
RewriterConflict(first, second) ==
  [kind |-> "NameError", first |-> <<first>>, second |-> <<second>>]

\* "".join(pieces)
RECURSIVE StrJoin(_)
StrJoin(pieces) ==
  IF pieces = <<>> THEN <<>> ELSE Head(pieces) \o StrJoin(Tail(pieces))

\* the for-loop of rewrite and the tail appended after it
RECURSIVE SpliceLoop(_, _, _, _, _)
SpliceLoop(source, rs, i, pos, rewritten) ==
  IF i > Len(rs) THEN Append(rewritten, PySliceFrom(source, pos))
  ELSE SpliceLoop(source, rs, i + 1, rs[i][1].end_pos,
                  rewritten \o <<PySlice(source, pos, rs[i][1].begin_pos), rs[i][2]>>)

\* a rewrite that checks each pair while it splices
RECURSIVE SpliceChecking(_, _, _, _, _)
SpliceChecking(source, rs, i, pos, rewritten) ==
  IF i > Len(rs)
  THEN [conflict |-> <<>>, rewritten |-> Append(rewritten, PySliceFrom(source, pos))]
  ELSE IF i > 1 /\ rs[i][1].begin_pos < rs[i - 1][1].end_pos
  THEN [conflict |-> <<rs[i - 1][1], rs[i][1]>>, rewritten |-> rewritten]
  ELSE SpliceChecking(source, rs, i + 1, rs[i][1].end_pos,
                      rewritten \o <<PySlice(source, pos, rs[i][1].begin_pos), rs[i][2]>>)

rewrite_interleaved(self_buffer, rs) ==
  LET sorted == _sort(rs)
      r == SpliceChecking(self_buffer.source, sorted, 1, 0, <<>>)
  IN IF r.conflict # <<>>
     THEN LET exc == RewriterConflict(r.conflict[1], r.conflict[2])
          IN [self_buffer |-> self_buffer, ranges |-> sorted, kind |-> exc.kind,
              buffer |-> <<>>, first |-> exc.first, second |-> exc.second,
              rewritten |-> r.rewritten]
     ELSE [self_buffer |-> self_buffer, ranges |-> sorted, kind |-> "Buffer",
           buffer |-> <<Buffer(StrJoin(r.rewritten), self_buffer.name,
                               self_buffer.first_line)>>,
           first |-> <<>>, second |-> <<>>, rewritten |-> r.rewritten]

\* Rewriter.rewrite: the Rewriter's buffer and edit list afterwards, what
\* is returned or raised, and the local list `rewritten` at that point.
rewrite(self_buffer, rs) ==
  LET sorted == _sort(rs)
      conflict == _check(sorted)
  IN IF conflict # <<>>
     THEN LET exc == RewriterConflict(conflict[1], conflict[2])
          IN [self_buffer |-> self_buffer, ranges |-> sorted, kind |-> exc.kind,
              buffer |-> <<>>, first |-> exc.first, second |-> exc.second,
              rewritten |-> <<>>]
     ELSE LET rewritten == SpliceLoop(self_buffer.source, sorted, 1, 0, <<>>)
          IN [self_buffer |-> self_buffer, ranges |-> sorted, kind |-> "Buffer",
              buffer |-> <<Buffer(StrJoin(rewritten), self_buffer.name,
                                  self_buffer.first_line)>>,
              first |-> <<>>, second |-> <<>>, rewritten |-> rewritten]

(* ------------------------- idle values of the state -------------------- *)
NoRet == [op |-> "none", arg |-> 0, kind |-> "none", value |-> <<>>]
NoHeap == [t \in Threads |-> <<>>]
NoRange == [source_buffer |-> None, begin_pos |-> 0, end_pos |-> 0]
NoJoin == [kind |-> "none", value |-> <<>>]
NoRewrite ==
  [kind |-> "none", buffer |-> <<>>, first |-> <<>>, second |-> <<>>,
   rewritten |-> <<>>, called_on |-> <<>>]

IdleThreads ==
  /\ pc = [t \in Threads |-> "idle"]
  /\ index = [t \in Threads |-> NoInt]
  /\ lb = [t \in Threads |-> None]
  /\ obs = [t \in Threads |-> <<>>]

IdleRange == ra = NoRange /\ rb = NoRange /\ joined = NoJoin

IdleRewriter == ranges = <<>> /\ rwres = NoRewrite

(* ------------------- the Buffer used by a single caller ---------------- *)
Offsets == (-1)..(MaxLen + 1)
Linenos == 0..(MaxLen + 5)

InitBuffer ==
  /\ buffer \in {Buffer(s, "<input>", f) : s \in Sources, f \in FirstLines}
  /\ heap = NoHeap
  /\ ret = NoRet
  /\ IdleThreads /\ IdleRange /\ IdleRewriter

ExtractLineBegins ==
  LET e == _extract_line_begins(buffer, heap, "t1")
  IN /\ buffer' = e.buffer
     /\ heap' = e.heap
     /\ ret' = [op |-> "_extract_line_begins", arg |-> 0, kind |-> "ok",
                value |-> e.heap[e.ref]]
     /\ UNCHANGED <<pc, index, lb, obs, ra, rb, joined, ranges, rwres>>

SourceLine(lineno) ==
  LET r == source_line(buffer, heap, "t1", lineno)
  IN /\ buffer' = r.buffer
     /\ heap' = r.heap
     /\ ret' = [op |-> "source_line", arg |-> lineno, kind |-> r.kind,
                value |-> r.value]
     /\ UNCHANGED <<pc, index, lb, obs, ra, rb, joined, ranges, rwres>>

DecomposePosition(offset) ==
  LET r == decompose_position(buffer, heap, "t1", offset)
  IN /\ buffer' = r.buffer
     /\ heap' = r.heap
     /\ ret' = [op |-> "decompose_position", arg |-> offset, kind |-> r.kind,
                value |-> r.value]
     /\ UNCHANGED <<pc, index, lb, obs, ra, rb, joined, ranges, rwres>>

NextBuffer ==
  \/ ExtractLineBegins
  \/ \E lineno \in Linenos : SourceLine(lineno)
  \/ \E offset \in Offsets : DecomposePosition(offset)

SpecBuffer == InitBuffer /\ [][NextBuffer]_vars

(* -------- the line index built by callers that interleave (threads) ---- *)
\* Each thread calls _extract_line_begins and then reads the list it got.
\* pc[t] is the line of source.py the thread is about to execute.
InitRace ==
  /\ buffer \in {Buffer(s, "<input>", 1) : s \in Sources}
  /\ heap = NoHeap
  /\ ret = NoRet
  /\ IdleThreads /\ IdleRange /\ IdleRewriter

UnchangedSeq == UNCHANGED <<ret, ra, rb, joined, ranges, rwres>>

\* a caller enters _extract_line_begins
Call(t) ==
  /\ pc[t] \in {"idle", "used"}
  /\ pc' = [pc EXCEPT ![t] = "L57"]
  /\ index' = [index EXCEPT ![t] = NoInt]
  /\ lb' = [lb EXCEPT ![t] = None]
  /\ obs' = [obs EXCEPT ![t] = <<>>]
  /\ UNCHANGED <<buffer, heap>> /\ UnchangedSeq

\* line 57: if self._line_begins:
L57(t) ==
  /\ pc[t] = "L57"
  /\ pc' = [pc EXCEPT ![t] =
              IF Truthy(buffer._line_begins, heap) THEN "L58" ELSE "L60"]
  /\ UNCHANGED <<buffer, heap, index, lb, obs>> /\ UnchangedSeq

\* line 58: return self._line_begins
L58(t) ==
  /\ pc[t] = "L58"
  /\ lb' = [lb EXCEPT ![t] = buffer._line_begins]
  /\ pc' = [pc EXCEPT ![t] = "returned"]
  /\ UNCHANGED <<buffer, heap, index, obs>> /\ UnchangedSeq

\* lines 60-61: self._line_begins = [0]; index = None
L60(t) ==
  /\ pc[t] = "L60"
  /\ heap' = [heap EXCEPT ![t] = <<0>>]
  /\ buffer' = [buffer EXCEPT !._line_begins = t]
  /\ index' = [index EXCEPT ![t] = NoInt]
  /\ pc' = [pc EXCEPT ![t] = "L63"]
  /\ UNCHANGED <<lb, obs>> /\ UnchangedSeq

\* lines 63-65: index = find + 1; if index == 0: return self._line_begins
L63(t) ==
  /\ pc[t] = "L63"
  /\ LET nxt == Find(buffer.source, NL, index[t]) + 1
     IN /\ index' = [index EXCEPT ![t] = Some(nxt)]
        /\ IF nxt = 0
           THEN /\ lb' = [lb EXCEPT ![t] = buffer._line_begins]
                /\ pc' = [pc EXCEPT ![t] = "returned"]
           ELSE /\ lb' = lb
                /\ pc' = [pc EXCEPT ![t] = "L66"]
  /\ UNCHANGED <<buffer, heap, obs>> /\ UnchangedSeq

\* line 66: self._line_begins.append(index)
L66(t) ==
  /\ pc[t] = "L66"
  /\ heap' = [heap EXCEPT ![buffer._line_begins] = Append(@, index[t][1])]
  /\ pc' = [pc EXCEPT ![t] = "L63"]
  /\ UNCHANGED <<buffer, index, lb, obs>> /\ UnchangedSeq

\* lines 34 and 49: the caller reads the list that was returned to it
Use(t) ==
  /\ pc[t] = "returned"
  /\ obs' = [obs EXCEPT ![t] = heap[lb[t]]]
  /\ pc' = [pc EXCEPT ![t] = "used"]
  /\ UNCHANGED <<buffer, heap, index, lb>> /\ UnchangedSeq

NextRace ==
  \E t \in Threads :
    Call(t) \/ L57(t) \/ L58(t) \/ L60(t) \/ L63(t) \/ L66(t) \/ Use(t)

SpecRace == InitRace /\ [][NextRace]_vars

(* ---------------------------- joining ranges --------------------------- *)
BufferIds == {"b1", "b2"}
Positions == 0..Len(RwSource)
AllRanges == {Range(b, x, y) : b \in BufferIds, x \in Positions, y \in Positions}

InitRange ==
  /\ buffer = Buffer(<<>>, "<input>", 1)
  /\ heap = NoHeap
  /\ ret = NoRet
  /\ ra \in AllRanges
  /\ rb \in AllRanges
  /\ joined = NoJoin
  /\ IdleThreads /\ IdleRewriter

\* ra.join(rb)
Join ==
  /\ joined' = join(ra, rb)
  /\ UNCHANGED <<buffer, heap, ret, pc, index, lb, obs, ra, rb, ranges, rwres>>

NextRange == Join

SpecRange == InitRange /\ [][NextRange]_vars

(* ------------------------------ rewriting ------------------------------- *)
\* the ranges handed to the Rewriter: every [x, y) of the source, and one
\* range whose end_pos lies before its begin_pos (Range checks neither).
RwRanges ==
  {r \in {Range("b1", x, y) : x \in Positions, y \in Positions} :
     r.begin_pos <= r.end_pos}
  \cup {Range("b1", Len(RwSource), 0)}

InitRewriter ==
  /\ buffer = Buffer(RwSource, "f.py", 3)
  /\ heap = NoHeap
  /\ ret = NoRet
  /\ ranges = <<>>
  /\ rwres = NoRewrite
  /\ IdleThreads /\ IdleRange

UnchangedByEdit == UNCHANGED <<buffer, heap, ret, pc, index, lb, obs, ra, rb, joined>>

Replace(range, text) ==
  /\ Len(ranges) < MaxEdits
  /\ ranges' = replace(ranges, range, text)
  /\ rwres' = NoRewrite
  /\ UnchangedByEdit

Remove(range) ==
  /\ Len(ranges) < MaxEdits
  /\ ranges' = remove(ranges, range)
  /\ rwres' = NoRewrite
  /\ UnchangedByEdit

InsertBefore(range, text) ==
  /\ Len(ranges) < MaxEdits
  /\ ranges' = insert_before(ranges, range, text)
  /\ rwres' = NoRewrite
  /\ UnchangedByEdit

InsertAfter(range, text) ==
  /\ Len(ranges) < MaxEdits
  /\ ranges' = insert_after(ranges, range, text)
  /\ rwres' = NoRewrite
  /\ UnchangedByEdit

Rewrite ==
  LET r == rewrite(buffer, ranges)
  IN /\ buffer' = r.self_buffer
     /\ ranges' = r.ranges
     /\ rwres' = [kind |-> r.kind, buffer |-> r.buffer, first |-> r.first,
                  second |-> r.second, rewritten |-> r.rewritten,
                  called_on |-> ranges]
     /\ UNCHANGED <<heap, ret, pc, index, lb, obs, ra, rb, joined>>

NextRewriter ==
  \/ \E range \in RwRanges, text \in Texts : Replace(range, text)
  \/ \E range \in RwRanges : Remove(range)
  \/ \E range \in RwRanges, text \in Texts : InsertBefore(range, text)
  \/ \E range \in RwRanges, text \in Texts : InsertAfter(range, text)
  \/ Rewrite

SpecRewriter == InitRewriter /\ [][NextRewriter]_vars

(* ------------------------- properties of the Buffer -------------------- *)
\* number of newline characters in source[0:o]
NewlinesBefore(s, o) == Cardinality({j \in 1..o : s[j] = NL})

\* L is the line index of s: 0, then the offset just past each newline
IsLineIndex(L, s) ==
  /\ Len(L) = NewlinesBefore(s, Len(s)) + 1
  /\ L[1] = 0
  /\ \A k \in 1..(Len(L) - 1) : L[k] < L[k + 1]
  /\ \A k \in 1..(Len(L) - 1) :
       /\ L[k + 1] \in 1..Len(s)
       /\ s[L[k + 1]] = NL
       /\ NewlinesBefore(s, L[k + 1]) = k

Cached == heap[buffer._line_begins]

\* C4: decompose_position(offset) raises IndexError exactly when offset < 0
\* or offset > len(source); otherwise it returns (i + first_line,
\* offset - line_begins[i]) for the greatest i with line_begins[i] <= offset,
\* so that line_begins[line - first_line] + column = offset.
C4_DecomposePosition ==
  ret.op = "decompose_position" =>
    /\ ret.kind \in {"ok", "IndexError"}
    /\ ret.kind = "IndexError" <=> (ret.arg < 0 \/ ret.arg > Len(buffer.source))
    /\ ret.kind = "ok" =>
         \E i \in 0..(Len(Cached) - 1) :
           /\ Cached[i + 1] <= ret.arg
           /\ \A j \in 0..(Len(Cached) - 1) : Cached[j + 1] <= ret.arg => j <= i
           /\ ret.value = <<i + buffer.first_line, ret.arg - Cached[i + 1]>>
           /\ Cached[ret.value[1] - buffer.first_line + 1] + ret.value[2] = ret.arg

C4_Witness ==
  /\ ret.op = "decompose_position" /\ ret.kind = "ok"
  /\ ret.arg = Len(buffer.source)
  /\ ret.value[1] > buffer.first_line
  /\ ret.value[2] = 0

\* C5: with k = lineno - first_line and n = newline count + 1,
\* source_line(lineno) raises IndexError exactly when k < 0 or k >= n; for
\* k < n - 1 it returns source[line_begins[k]:line_begins[k+1]], which ends
\* with a newline; for k = n - 1 it returns source[line_begins[k]:], which
\* holds no newline.
C5_SourceLine ==
  ret.op = "source_line" =>
    LET k == ret.arg - buffer.first_line
        n == NewlinesBefore(buffer.source, Len(buffer.source)) + 1
    IN /\ ret.kind \in {"ok", "IndexError"}
       /\ ret.kind = "IndexError" <=> (k < 0 \/ k >= n)
       /\ (ret.kind = "ok" /\ k < n - 1) =>
            /\ ret.value = SubSeq(buffer.source, Cached[k + 1] + 1, Cached[k + 2])
            /\ Len(ret.value) >= 1
            /\ ret.value[Len(ret.value)] = NL
       /\ (ret.kind = "ok" /\ k = n - 1) =>
            /\ ret.value = SubSeq(buffer.source, Cached[k + 1] + 1, Len(buffer.source))
            /\ \A j \in 1..Len(ret.value) : ret.value[j] # NL

C5_Witness ==
  /\ ret.op = "source_line" /\ ret.kind = "ok"
  /\ ret.arg = buffer.first_line + 1
  /\ Len(ret.value) = 2
  /\ ret.value[2] = NL

\* C6: for any source text the line index built by _extract_line_begins
\* starts with 0, is strictly increasing, has newline count + 1 elements,
\* and its element k+1 is the offset just past the k-th newline.
C6_LineBegins ==
  buffer._line_begins # None => IsLineIndex(Cached, buffer.source)

C6_Witness ==
  /\ buffer._line_begins # None
  /\ Len(Cached) = 3
  /\ Cached[3] = Len(buffer.source)
  /\ Cached[2] = 1

\* C7: the cache goes once from uncomputed to computed and never changes;
\* when callers interleave their first calls to _extract_line_begins, every
\* caller obtains the complete, correct index.
C7_EveryCallerSeesTheIndex ==
  \A t \in Threads : pc[t] = "used" => IsLineIndex(obs[t], buffer.source)

(* -------------------- properties of Range and Rewriter ------------------ *)
\* C8: on one Buffer a.join(b) is Range(buffer, least begin_pos, greatest
\* end_pos) whether or not the ranges overlap or touch, so a.join(b) ==
\* b.join(a) and a.join(a) == a; on different Buffers join raises
\* ValueError and returns no range.
C8_Join ==
  joined.kind # "none" =>
    IF ra.source_buffer = rb.source_buffer
    THEN /\ joined.kind = "ok"
         /\ LET j == joined.value[1]
            IN /\ j.source_buffer = ra.source_buffer
               /\ j.begin_pos \in {ra.begin_pos, rb.begin_pos}
               /\ j.begin_pos <= ra.begin_pos /\ j.begin_pos <= rb.begin_pos
               /\ j.end_pos \in {ra.end_pos, rb.end_pos}
               /\ j.end_pos >= ra.end_pos /\ j.end_pos >= rb.end_pos
               /\ __eq__(j, join(rb, ra).value[1])
         /\ __eq__(join(ra, ra).value[1], ra)
    ELSE joined.kind = "ValueError" /\ joined.value = <<>>

C8_Witness ==
  /\ joined.kind = "ok"
  /\ rb.begin_pos < rb.end_pos
  /\ rb.end_pos < ra.begin_pos
  /\ joined.value[1] = Range(ra.source_buffer, rb.begin_pos, ra.end_pos)

\* the edits of es in stable begin_pos order: the edit at position i comes
\* after every edit of smaller begin_pos and every earlier edit of equal
\* begin_pos.
Rank(es, i) ==
  1 + Cardinality({j \in 1..Len(es) :
        \/ es[j][1].begin_pos < es[i][1].begin_pos
        \/ es[j][1].begin_pos = es[i][1].begin_pos /\ j < i})

StableOrder(es) ==
  [k \in 1..Len(es) |-> es[CHOOSE i \in 1..Len(es) : Rank(es, i) = k]]

InBounds(es, source) ==
  \A i \in 1..Len(es) :
    /\ 0 <= es[i][1].begin_pos
    /\ es[i][1].begin_pos <= es[i][1].end_pos
    /\ es[i][1].end_pos <= Len(source)

\* some edit of the sorted list begins before the end of the edit before it
Overlapping(S) ==
  \E k \in 1..(Len(S) - 1) : S[k + 1][1].begin_pos < S[k][1].end_pos

\* source[e_(k-1):b_k] + t_k + ... + t_n + source[e_n:]
RECURSIVE SplicedFrom(_, _, _)
SplicedFrom(source, S, k) ==
  LET from == IF k = 1 THEN 0 ELSE S[k - 1][1].end_pos
  IN IF k > Len(S) THEN SubSeq(source, from + 1, Len(source))
     ELSE SubSeq(source, from + 1, S[k][1].begin_pos) \o S[k][2]
          \o SplicedFrom(source, S, k + 1)

\* C1: if any two accumulated edits overlap in begin_pos-sorted order,
\* rewrite() fails with a RewriterConflict whose first and second are that
\* pair.
C1_ConflictRaised ==
  (rwres.kind # "none" /\ Overlapping(StableOrder(rwres.called_on))) =>
    LET S == StableOrder(rwres.called_on)
        k == CHOOSE k \in 1..(Len(S) - 1) :
               /\ S[k + 1][1].begin_pos < S[k][1].end_pos
               /\ \A m \in 1..(k - 1) : S[m + 1][1].begin_pos >= S[m][1].end_pos
    IN /\ rwres.kind = "RewriterConflict"
       /\ rwres.first = <<S[k][1]>>
       /\ rwres.second = <<S[k + 1][1]>>

\* C2: two accumulated edits that touch (one's end_pos is the other's
\* begin_pos), added in either order, never make rewrite() fail on that
\* pair.
C2_TouchingNeverConflicts ==
  rwres.kind # "none" =>
    \A i, j \in 1..Len(rwres.called_on) :
      LET a == rwres.called_on[i][1]
          b == rwres.called_on[j][1]
      IN (/\ i # j
          /\ a.begin_pos <= a.end_pos /\ b.begin_pos <= b.end_pos
          /\ a.end_pos = b.begin_pos)
         => ~ (rwres.kind # "Buffer" /\ {rwres.first, rwres.second} = {<<a>>, <<b>>})

\* C3: when no two edits conflict and every range has
\* 0 <= begin_pos <= end_pos <= len(source), rewrite() returns a new Buffer
\* whose text is source[0:b1] + t1 + source[e1:b2] + ... + tn + source[en:]
\* over the edits in stable begin_pos order, with the original's name and
\* first_line; with no edits the text is the original source.
C3_Splice ==
  (/\ rwres.kind # "none"
   /\ InBounds(rwres.called_on, buffer.source)
   /\ ~ Overlapping(StableOrder(rwres.called_on))) =>
    /\ rwres.kind = "Buffer"
    /\ rwres.buffer[1].source =
         SplicedFrom(buffer.source, StableOrder(rwres.called_on), 1)
    /\ rwres.buffer[1].name = buffer.name
    /\ rwres.buffer[1].first_line = buffer.first_line
    /\ rwres.called_on = <<>> => rwres.buffer[1].source = buffer.source

C3_Witness ==
  /\ rwres.kind = "Buffer"
  /\ InBounds(rwres.called_on, buffer.source)
  /\ Len(rwres.called_on) = 3
  /\ rwres.called_on[1][1] = Range("b1", 1, 2)
  /\ rwres.called_on[2][1] = Range("b1", 0, 0)
  /\ rwres.called_on[3][1] = Range("b1", 0, 0)
  /\ rwres.buffer[1].source = <<"X", "Y", "a", "Y">>

\* ys holds the elements of xs, each as often as xs does
IsPermutation(xs, ys) ==
  /\ Len(xs) = Len(ys)
  /\ \A i \in 1..Len(xs) :
       Cardinality({k \in 1..Len(xs) : xs[k] = xs[i]})
         = Cardinality({k \in 1..Len(ys) : ys[k] = xs[i]})

\* C9: rewrite() is atomic: a failing rewrite() has assembled no output
\* text and returns no Buffer, the original Buffer is unchanged whether it
\* returns or fails, and all it changes is the order of the Rewriter's
\* edit list, left sorted by begin_pos.
C9_Atomic ==
  [][rwres'.kind # "none" =>
       /\ buffer' = buffer
       /\ heap' = heap
       /\ IsPermutation(ranges, ranges')
       /\ \A k \in 1..(Len(ranges') - 1) :
            ranges'[k][1].begin_pos <= ranges'[k + 1][1].begin_pos
       /\ rwres'.kind # "Buffer" => (rwres'.buffer = <<>> /\ rwres'.rewritten = <<>>)
       /\ rwres'.kind = "Buffer" => Len(rwres'.buffer) = 1]_vars

C9_Witness ==
  /\ rwres.kind \notin {"none", "Buffer"}
  /\ Len(ranges) = 3
  /\ ranges # rwres.called_on
  /\ rwres.first = <<ranges[2][1]>>
  /\ rwres.second = <<ranges[3][1]>>

\* C10: whenever rewrite() returns a Buffer, every pair of edits of the
\* sorted list is disjoint, not only neighbours: for i < j, edit j begins
\* at or after the end of edit i.
C10_AllPairsDisjoint ==
  rwres.kind = "Buffer" =>
    /\ ranges = StableOrder(rwres.called_on)
    /\ \A i, j \in 1..Len(ranges) :
         i < j => ranges[j][1].begin_pos >= ranges[i][1].end_pos

C10_Witness ==
  /\ rwres.kind = "Buffer"
  /\ Len(ranges) = 3
  /\ ranges # rwres.called_on
  /\ ranges[1][1].begin_pos < ranges[1][1].end_pos
  /\ ranges[3][1].begin_pos < ranges[3][1].end_pos

====
